---- MODULE Spec2Model ----
(***************************************************************************)
(* Model of commands/keys.py: the two click commands generate_xch_key and  *)
(* generate_eth_key, executed statement by statement.                      *)
(*                                                                         *)
(* The library functions the commands call (chia, chia_rs, eth_account,    *)
(* web3, secrets) are deterministic functions whose code is outside the    *)
(* repository.  They are modelled symbolically: the value a call returns   *)
(* is the term <<name, <<arguments>>>>, so two values are equal exactly    *)
(* when they were built by the same calls from the same inputs (functions  *)
(* are deterministic and collision free).  Leaves of the term algebra are  *)
(* byte strings, text strings, integers and integer lists.                 *)
(***************************************************************************)
EXTENDS Integers, Sequences, FiniteSets, TLC

VARIABLES
    pc,                         \* position of the running command
    cmd,                        \* command of the current invocation
    config,                     \* configuration items, by path
    out,                        \* lines echoed by the current invocation
    \* locals of generate_xch_key
    entropy, mnemonic, private_key, public_key, seed, root_key,
    first_wallet_sk, first_wallet_pk, first_wallet_synthetic_key,
    first_puzzle_hash, first_address,
    \* frame of mnemonic_to_validator_pk (parameter and locals)
    v_mnemonic, v_seed, v_root_key,
    \* local of generate_eth_key
    account,
    \* observation of the calls made by the current invocation
    draws,                      \* sizes requested from secrets.token_bytes
    seedCalls,                  \* arguments passed to mnemonic_to_seed
    cfgReads,                   \* paths passed to get_config_item
    creates,                    \* number of Account.create() calls
    err,                        \* exception that ended the invocation
    \* observation across invocations
    runs,                       \* invocations started so far
    log,                        \* completed generate_xch_key invocations
    ethLog                      \* completed generate_eth_key invocations

xchLocals == <<entropy, mnemonic, private_key, public_key, seed, root_key,
               first_wallet_sk, first_wallet_pk, first_wallet_synthetic_key,
               first_puzzle_hash, first_address>>
vLocals == <<v_mnemonic, v_seed, v_root_key>>
calls == <<draws, seedCalls, cfgReads, creates>>
keyLocals == <<entropy, mnemonic, private_key, public_key, seed, root_key>>
walletLocals == <<first_wallet_sk, first_wallet_pk,
                  first_wallet_synthetic_key, first_puzzle_hash,
                  first_address>>
\* what no statement of generate_xch_key touches
xchFrame == <<cmd, config, account, creates, runs, log, ethLog>>
vars == <<pc, cmd, config, out, xchLocals, vLocals, account, calls, err,
          runs, log, ethLog>>

----------------------------------------------------------------------------
(* Bounds *)

NumByteVals == 2        \* distinct outcomes of one random draw
NumPrefixes == 2        \* distinct values a configuration item can take
MaxRuns == 3            \* invocations in one behaviour

ByteVals == 0 .. NumByteVals - 1
PrefixNames == <<"xch", "txch", "pfx3", "pfx4">>

----------------------------------------------------------------------------
(* Values *)

None == <<"None", <<>>>>
Bytes(n, b) == <<"bytes", [i \in 1 .. n |-> b]>>
Str(s) == <<"str", <<s>>>>
IntVal(i) == <<"int", <<i>>>>
IntList(l) == <<"list", l>>
LeafTags == {"None", "bytes", "str", "int", "list"}

ENTROPY_BYTES == 16
ETH_KEY_BYTES == 32
VALIDATOR_PATH == <<12381, 8444, 7, 0>>
FIRST_WALLET_INDEX == 0
DEFAULT_HIDDEN_PUZZLE_HASH == <<"DEFAULT_HIDDEN_PUZZLE_HASH", <<>>>>
PREFIX_ITEM == <<"xch", "prefix">>
OTHER_ITEM == <<"eth", "prefix">>
ConfigPaths == {PREFIX_ITEM, OTHER_ITEM}
Prefixes == {Str(PrefixNames[i]) : i \in 1 .. NumPrefixes}
\* the configurations: every item holds a string; two values of the item the
\* commands do not read are enough to tell whether it is read
Configs ==
    {c \in [ConfigPaths -> Prefixes] :
        c[OTHER_ITEM] \in {Str(PrefixNames[1]), Str(PrefixNames[2])}}

\* secrets.token_bytes(n), when the draw yields the byte value b throughout
token_bytes(n, b) == Bytes(n, b)

\* chia.util.keychain
MnemonicSizes == {16, 20, 24, 28, 32}
bytes_to_mnemonic(e) == <<"bytes_to_mnemonic", <<e>>>>
WellFormedMnemonic(m) ==
    /\ m[1] = "bytes_to_mnemonic"
    /\ m[2][1][1] = "bytes"
    /\ Len(m[2][1][2]) \in MnemonicSizes
mnemonic_to_seed(m) == <<"mnemonic_to_seed", <<m>>>>

\* chia_rs
key_gen(s) == <<"AugSchemeMPL.key_gen", <<s>>>>
get_g1(sk) == <<"get_g1", <<sk>>>>
bytes_of(k) == <<"bytes_of", <<k>>>>
hex(b) == <<"hex", <<b>>>>
str(v) == <<"format", <<v>>>>

\* chia.wallet.derive_keys
_derive_path(sk, path) == <<"_derive_path", <<sk, IntList(path)>>>>
master_sk_to_wallet_sk_unhardened(sk, index) ==
    <<"master_sk_to_wallet_sk_unhardened", <<sk, IntVal(index)>>>>

\* chia.wallet.puzzles.p2_delegated_puzzle_or_hidden_puzzle
calculate_synthetic_public_key(pk, hidden) ==
    <<"calculate_synthetic_public_key", <<pk, hidden>>>>
puzzle_hash_for_synthetic_public_key(spk) ==
    <<"puzzle_hash_for_synthetic_public_key", <<spk>>>>

\* chia.util.bech32m
encode_puzzle_hash(ph, prefix) == <<"encode_puzzle_hash", <<ph, prefix>>>>

\* eth_account, web3
Account_create(r) == <<"Account.create", <<r>>>>
account_key(a) == <<"key", <<a>>>>
account_public_key(a) == <<"_key_obj.public_key", <<a>>>>
account_address(a) == <<"address", <<a>>>>
to_checksum_address(a) == <<"to_checksum_address", <<a>>>>

\* commands.config
get_config_item(path) == config[path]

\* a term s occurs in the term t (t was computed from s)
RECURSIVE SubTerm(_, _)
SubTerm(t, s) ==
    \/ t = s
    \/ /\ t[1] \notin LeafTags
       /\ \E i \in 1 .. Len(t[2]) : SubTerm(t[2][i], s)

\* click.echo(f"<label>{value}")
echo(label, value) == out' = Append(out, <<label, value>>)

----------------------------------------------------------------------------
(* State after construction: no command has run yet *)

Init ==
    /\ pc = "idle"
    /\ cmd = "none"
    /\ config \in Configs
    /\ out = <<>>
    /\ entropy = None /\ mnemonic = None /\ private_key = None
    /\ public_key = None /\ seed = None /\ root_key = None
    /\ first_wallet_sk = None /\ first_wallet_pk = None
    /\ first_wallet_synthetic_key = None /\ first_puzzle_hash = None
    /\ first_address = None
    /\ v_mnemonic = None /\ v_seed = None /\ v_root_key = None
    /\ account = None
    /\ draws = <<>> /\ seedCalls = <<>> /\ cfgReads = <<>> /\ creates = 0
    /\ err = "none"
    /\ runs = 0
    /\ log = {}
    /\ ethLog = {}

\* the configuration file is edited while no command runs
SetConfig ==
    /\ pc = "idle"
    /\ \E c \in Configs : c # config /\ config' = c
    /\ UNCHANGED <<pc, cmd, out, xchLocals, vLocals, account, calls, err,
                   runs, log, ethLog>>

\* the keys group dispatches to generate_xch_key
Invoke_xch ==
    /\ pc = "idle"
    /\ runs < MaxRuns
    /\ runs' = runs + 1
    /\ cmd' = "xch"
    /\ pc' = "L23"
    /\ UNCHANGED <<config, out, xchLocals, vLocals, account, calls, err, log,
                   ethLog>>

\* the command has returned or raised: the process exits and nothing of the
\* invocation is left
Exit ==
    /\ pc \in {"done", "aborted"}
    /\ pc' = "idle"
    /\ cmd' = "none"
    /\ out' = <<>>
    /\ entropy' = None /\ mnemonic' = None /\ private_key' = None
    /\ public_key' = None /\ seed' = None /\ root_key' = None
    /\ first_wallet_sk' = None /\ first_wallet_pk' = None
    /\ first_wallet_synthetic_key' = None /\ first_puzzle_hash' = None
    /\ first_address' = None
    /\ v_mnemonic' = None /\ v_seed' = None /\ v_root_key' = None
    /\ account' = None
    /\ draws' = <<>> /\ seedCalls' = <<>> /\ cfgReads' = <<>> /\ creates' = 0
    /\ err' = "none"
    /\ UNCHANGED <<config, runs, log, ethLog>>

----------------------------------------------------------------------------
(* generate_xch_key, one action per statement *)

L23 ==
    /\ pc = "L23"
    /\ echo("Generating XCH key...", None)
    /\ pc' = "L24"
    /\ UNCHANGED <<xchLocals, vLocals, calls, err, xchFrame>>

\* variant: secrets.token_bytes(32)
L24_draws_32 ==
    /\ pc = "L24"
    /\ \E b \in ByteVals : entropy' = token_bytes(32, b)
    /\ draws' = Append(draws, 32)
    /\ pc' = "L25"
    /\ UNCHANGED <<mnemonic, private_key, public_key, seed, root_key,
                   walletLocals, vLocals, out, seedCalls, cfgReads, err,
                   xchFrame>>

\* entropy = secrets.token_bytes(16)
L24 ==
    /\ pc = "L24"
    /\ \E b \in ByteVals : entropy' = token_bytes(ENTROPY_BYTES, b)
    /\ draws' = Append(draws, ENTROPY_BYTES)
    /\ pc' = "L25"
    /\ UNCHANGED <<mnemonic, private_key, public_key, seed, root_key,
                   walletLocals, vLocals, out, seedCalls, cfgReads, err,
                   xchFrame>>

\* variant: the exception is caught and a constant entropy is used instead
L24_raise_fallback ==
    /\ pc = "L24"
    /\ draws' = Append(draws, ENTROPY_BYTES)
    /\ err' = "RandomnessUnavailable"
    /\ entropy' = Bytes(ENTROPY_BYTES, 0)
    /\ pc' = "L25"
    /\ UNCHANGED <<mnemonic, private_key, public_key, seed, root_key,
                   walletLocals, vLocals, out, seedCalls, cfgReads, xchFrame>>

\* secrets.token_bytes raises: the randomness source is unavailable
L24_raise ==
    /\ pc = "L24"
    /\ draws' = Append(draws, ENTROPY_BYTES)
    /\ err' = "RandomnessUnavailable"
    /\ pc' = "aborted"
    /\ UNCHANGED <<xchLocals, vLocals, out, seedCalls, cfgReads, xchFrame>>

\* variant: the mnemonic of an earlier invocation is reused when there is one
L25_reuses_mnemonic ==
    /\ pc = "L25"
    /\ mnemonic' =
           IF log # {}
           THEN bytes_to_mnemonic((CHOOSE r \in log : TRUE).input)
           ELSE bytes_to_mnemonic(entropy)
    /\ pc' = "L26"
    /\ UNCHANGED <<entropy, private_key, public_key, seed, root_key,
                   walletLocals, vLocals, out, calls, err, xchFrame>>

\* mnemonic = bytes_to_mnemonic(entropy)
L25 ==
    /\ pc = "L25"
    /\ mnemonic' = bytes_to_mnemonic(entropy)
    /\ pc' = "L26"
    /\ UNCHANGED <<entropy, private_key, public_key, seed, root_key,
                   walletLocals, vLocals, out, calls, err, xchFrame>>

L26 ==
    /\ pc = "L26"
    /\ echo("Mnemonic: ", mnemonic)
    /\ pc' = "L27"
    /\ UNCHANGED <<xchLocals, vLocals, calls, err, xchFrame>>

\* variant: mnemonic_to_validator_pk(entropy)
L27_passes_entropy ==
    /\ pc = "L27"
    /\ v_mnemonic' = entropy
    /\ pc' = "L17"
    /\ UNCHANGED <<xchLocals, v_seed, v_root_key, out, calls, err, xchFrame>>

\* private_key = mnemonic_to_validator_pk(mnemonic): enter the function
L27 ==
    /\ pc = "L27"
    /\ v_mnemonic' = mnemonic
    /\ pc' = "L17"
    /\ UNCHANGED <<xchLocals, v_seed, v_root_key, out, calls, err, xchFrame>>

\* mnemonic_to_validator_pk: seed = mnemonic_to_seed(mnemonic)
L17 ==
    /\ pc = "L17"
    /\ seedCalls' = Append(seedCalls, v_mnemonic)
    /\ IF WellFormedMnemonic(v_mnemonic)
       THEN /\ v_seed' = mnemonic_to_seed(v_mnemonic)
            /\ pc' = "L18"
            /\ err' = err
       ELSE /\ v_seed' = v_seed
            /\ pc' = "aborted"
            /\ err' = "InvalidMnemonic"
    /\ UNCHANGED <<xchLocals, v_mnemonic, v_root_key, out, draws, cfgReads,
                   xchFrame>>

\* mnemonic_to_validator_pk: root_key = AugSchemeMPL.key_gen(seed)
L18 ==
    /\ pc = "L18"
    /\ v_root_key' = key_gen(v_seed)
    /\ pc' = "L19"
    /\ UNCHANGED <<xchLocals, v_mnemonic, v_seed, out, calls, err, xchFrame>>

\* mnemonic_to_validator_pk: return _derive_path(root_key, [12381, 8444, 7, 0]),
\* assigned to private_key by the caller
L19 ==
    /\ pc = "L19"
    /\ private_key' = _derive_path(v_root_key, VALIDATOR_PATH)
    /\ pc' = "L28"
    /\ UNCHANGED <<entropy, mnemonic, public_key, seed, root_key,
                   walletLocals, vLocals, out, calls, err, xchFrame>>

\* public_key = private_key.get_g1()
L28 ==
    /\ pc = "L28"
    /\ public_key' = get_g1(private_key)
    /\ pc' = "L29"
    /\ UNCHANGED <<entropy, mnemonic, private_key, seed, root_key,
                   walletLocals, vLocals, out, calls, err, xchFrame>>

\* variant: the public key line is echoed first
L29_echoes_public_key ==
    /\ pc = "L29"
    /\ echo("Public Key: ", str(public_key))
    /\ pc' = "L30"
    /\ UNCHANGED <<xchLocals, vLocals, calls, err, xchFrame>>

L29 ==
    /\ pc = "L29"
    /\ echo("Private Key: ", hex(bytes_of(private_key)))
    /\ pc' = "L30"
    /\ UNCHANGED <<xchLocals, vLocals, calls, err, xchFrame>>

L30 ==
    /\ pc = "L30"
    /\ echo("Public Key: ", str(public_key))
    /\ pc' = "L32"
    /\ UNCHANGED <<xchLocals, vLocals, calls, err, xchFrame>>

\* seed = mnemonic_to_seed(mnemonic)
L32 ==
    /\ pc = "L32"
    /\ seedCalls' = Append(seedCalls, mnemonic)
    /\ IF WellFormedMnemonic(mnemonic)
       THEN /\ seed' = mnemonic_to_seed(mnemonic)
            /\ pc' = "L33"
            /\ err' = err
       ELSE /\ seed' = seed
            /\ pc' = "aborted"
            /\ err' = "InvalidMnemonic"
    /\ UNCHANGED <<entropy, mnemonic, private_key, public_key, root_key,
                   walletLocals, vLocals, out, draws, cfgReads, xchFrame>>

\* root_key = AugSchemeMPL.key_gen(seed)
L33 ==
    /\ pc = "L33"
    /\ root_key' = key_gen(seed)
    /\ pc' = "L34"
    /\ UNCHANGED <<entropy, mnemonic, private_key, public_key, seed,
                   walletLocals, vLocals, out, calls, err, xchFrame>>

\* variant: _derive_path(root_key, [12381, 8444, 7, 1])
L34_other_path ==
    /\ pc = "L34"
    /\ private_key' = _derive_path(root_key, <<12381, 8444, 7, 1>>)
    /\ pc' = "L35"
    /\ UNCHANGED <<entropy, mnemonic, public_key, seed, root_key,
                   walletLocals, vLocals, out, calls, err, xchFrame>>

\* private_key = _derive_path(root_key, [12381, 8444, 7, 0])
L34 ==
    /\ pc = "L34"
    /\ private_key' = _derive_path(root_key, VALIDATOR_PATH)
    /\ pc' = "L35"
    /\ UNCHANGED <<entropy, mnemonic, public_key, seed, root_key,
                   walletLocals, vLocals, out, calls, err, xchFrame>>

\* variant: master_sk_to_wallet_sk_unhardened(private_key, 0)
L35_from_validator_key ==
    /\ pc = "L35"
    /\ first_wallet_sk' =
           master_sk_to_wallet_sk_unhardened(private_key, FIRST_WALLET_INDEX)
    /\ pc' = "L36"
    /\ UNCHANGED <<keyLocals, first_wallet_pk, first_wallet_synthetic_key,
                   first_puzzle_hash, first_address, vLocals, out, calls,
                   err, xchFrame>>

\* first_wallet_sk = master_sk_to_wallet_sk_unhardened(root_key, 0)
L35 ==
    /\ pc = "L35"
    /\ first_wallet_sk' =
           master_sk_to_wallet_sk_unhardened(root_key, FIRST_WALLET_INDEX)
    /\ pc' = "L36"
    /\ UNCHANGED <<keyLocals, first_wallet_pk, first_wallet_synthetic_key,
                   first_puzzle_hash, first_address, vLocals, out, calls,
                   err, xchFrame>>

\* variant: first_wallet_pk = public_key
L36_uses_public_key ==
    /\ pc = "L36"
    /\ first_wallet_pk' = public_key
    /\ pc' = "L37"
    /\ UNCHANGED <<keyLocals, first_wallet_sk, first_wallet_synthetic_key,
                   first_puzzle_hash, first_address, vLocals, out, calls,
                   err, xchFrame>>

\* first_wallet_pk = first_wallet_sk.get_g1()
L36 ==
    /\ pc = "L36"
    /\ first_wallet_pk' = get_g1(first_wallet_sk)
    /\ pc' = "L37"
    /\ UNCHANGED <<keyLocals, first_wallet_sk, first_wallet_synthetic_key,
                   first_puzzle_hash, first_address, vLocals, out, calls,
                   err, xchFrame>>

\* first_wallet_synthetic_key =
\*     calculate_synthetic_public_key(first_wallet_pk, DEFAULT_HIDDEN_PUZZLE_HASH)
L37 ==
    /\ pc = "L37"
    /\ first_wallet_synthetic_key' =
           calculate_synthetic_public_key(first_wallet_pk,
                                          DEFAULT_HIDDEN_PUZZLE_HASH)
    /\ pc' = "L38"
    /\ UNCHANGED <<keyLocals, first_wallet_sk, first_wallet_pk,
                   first_puzzle_hash, first_address, vLocals, out, calls,
                   err, xchFrame>>

\* first_puzzle_hash = puzzle_hash_for_synthetic_public_key(...)
L38 ==
    /\ pc = "L38"
    /\ first_puzzle_hash' =
           puzzle_hash_for_synthetic_public_key(first_wallet_synthetic_key)
    /\ pc' = "L39"
    /\ UNCHANGED <<keyLocals, first_wallet_sk, first_wallet_pk,
                   first_wallet_synthetic_key, first_address, vLocals, out,
                   calls, err, xchFrame>>

\* variant: get_config_item(["eth", "prefix"])
L39_reads_other_item ==
    /\ pc = "L39"
    /\ cfgReads' = Append(cfgReads, OTHER_ITEM)
    /\ first_address' =
           encode_puzzle_hash(first_puzzle_hash, get_config_item(OTHER_ITEM))
    /\ pc' = "L40"
    /\ UNCHANGED <<keyLocals, first_wallet_sk, first_wallet_pk,
                   first_wallet_synthetic_key, first_puzzle_hash, vLocals,
                   out, draws, seedCalls, creates, err, cmd, config, account,
                   runs, log, ethLog>>

\* first_address = encode_puzzle_hash(first_puzzle_hash,
\*                                    get_config_item(["xch", "prefix"]))
L39 ==
    /\ pc = "L39"
    /\ cfgReads' = Append(cfgReads, PREFIX_ITEM)
    /\ first_address' =
           encode_puzzle_hash(first_puzzle_hash, get_config_item(PREFIX_ITEM))
    /\ pc' = "L40"
    /\ UNCHANGED <<keyLocals, first_wallet_sk, first_wallet_pk,
                   first_wallet_synthetic_key, first_puzzle_hash, vLocals,
                   out, draws, seedCalls, creates, err, cmd, config, account,
                   runs, log, ethLog>>

\* the last statement: the command returns and the process exits
L40 ==
    /\ pc = "L40"
    /\ echo("First address: ", first_address)
    /\ pc' = "done"
    /\ log' = log \cup {[input |-> entropy, cfg |-> config, out |-> out']}
    /\ UNCHANGED <<xchLocals, vLocals, calls, err, cmd, config, account,
                   runs, ethLog>>

generate_xch_key ==
    \/ L23 \/ L24 \/ L24_raise \/ L25 \/ L26 \/ L27 \/ L17 \/ L18 \/ L19
    \/ L28 \/ L29 \/ L30 \/ L32 \/ L33 \/ L34 \/ L35 \/ L36 \/ L37 \/ L38
    \/ L39 \/ L40

----------------------------------------------------------------------------
(* generate_eth_key, one action per statement *)

\* the keys group dispatches to generate_eth_key
Invoke_eth ==
    /\ pc = "idle"
    /\ runs < MaxRuns
    /\ runs' = runs + 1
    /\ cmd' = "eth"
    /\ pc' = "L44"
    /\ UNCHANGED <<config, out, xchLocals, vLocals, account, calls, err, log,
                   ethLog>>

L44 ==
    /\ pc = "L44"
    /\ echo("Generating ETH key...", None)
    /\ pc' = "L46"
    /\ UNCHANGED <<xchLocals, vLocals, account, calls, err, cmd, config,
                   runs, log, ethLog>>

\* variant: Account.create(secrets.token_bytes(16))
L46_draws_wallet_entropy ==
    /\ pc = "L46"
    /\ \E b \in ByteVals :
           account' = Account_create(token_bytes(ENTROPY_BYTES, b))
    /\ draws' = Append(draws, ENTROPY_BYTES)
    /\ creates' = creates + 1
    /\ pc' = "L48"
    /\ UNCHANGED <<xchLocals, vLocals, out, seedCalls, cfgReads, err,
                   cmd, config, runs, log, ethLog>>

\* account = Account.create()
L46 ==
    /\ pc = "L46"
    /\ \E b \in ByteVals : account' = Account_create(Bytes(ETH_KEY_BYTES, b))
    /\ creates' = creates + 1
    /\ pc' = "L48"
    /\ UNCHANGED <<xchLocals, vLocals, out, draws, seedCalls, cfgReads, err,
                   cmd, config, runs, log, ethLog>>

L48 ==
    /\ pc = "L48"
    /\ echo("Private Key: ", hex(account_key(account)))
    /\ pc' = "L49"
    /\ UNCHANGED <<xchLocals, vLocals, account, calls, err, cmd, config,
                   runs, log, ethLog>>

L49 ==
    /\ pc = "L49"
    /\ echo("Public Key: ", str(account_public_key(account)))
    /\ pc' = "L50"
    /\ UNCHANGED <<xchLocals, vLocals, account, calls, err, cmd, config,
                   runs, log, ethLog>>

\* the last statement: the command returns and the process exits
L50 ==
    /\ pc = "L50"
    /\ echo("Address: ", to_checksum_address(account_address(account)))
    /\ pc' = "done"
    /\ ethLog' = ethLog \cup {[input |-> account, out |-> out']}
    /\ UNCHANGED <<xchLocals, vLocals, account, calls, err, cmd, config,
                   runs, log>>

generate_eth_key == L44 \/ L46 \/ L48 \/ L49 \/ L50

Next ==
    \/ SetConfig
    \/ Exit
    \/ Invoke_xch \/ generate_xch_key
    \/ Invoke_eth \/ generate_eth_key

Spec == Init /\ [][Next]_vars

----------------------------------------------------------------------------
(* Vocabulary of the properties *)

XchLabels == <<"Generating XCH key...", "Mnemonic: ", "Private Key: ",
               "Public Key: ", "First address: ">>

\* the statements of one generate_xch_key invocation, in execution order
XchOrder == <<"L23", "L24", "L25", "L26", "L27", "L17", "L18", "L19", "L28",
              "L29", "L30", "L32", "L33", "L34", "L35", "L36", "L37", "L38",
              "L39", "L40", "done">>
Pos(p) == CHOOSE i \in 1 .. Len(XchOrder) : XchOrder[i] = p
\* the running generate_xch_key invocation has executed statement l
Past(l) ==
    /\ cmd = "xch"
    /\ \E i \in 1 .. Len(XchOrder) : XchOrder[i] = pc
    /\ Pos(pc) > Pos(l)
XchDone == cmd = "xch" /\ pc = "done"
EthDone == cmd = "eth" /\ pc = "done"

\* the derivation chain, as a function of the entropy (and the prefix)
RootOf(e) == key_gen(mnemonic_to_seed(bytes_to_mnemonic(e)))
ValidatorKeyOf(e) == _derive_path(RootOf(e), VALIDATOR_PATH)
WalletKeyOf(e) ==
    master_sk_to_wallet_sk_unhardened(RootOf(e), FIRST_WALLET_INDEX)
PuzzleHashOf(e) ==
    puzzle_hash_for_synthetic_public_key(
        calculate_synthetic_public_key(get_g1(WalletKeyOf(e)),
                                       DEFAULT_HIDDEN_PUZZLE_HASH))
AddressOf(e, p) == encode_puzzle_hash(PuzzleHashOf(e), p)

XchRuns == log
EthRuns == ethLog

----------------------------------------------------------------------------
(* C1: the lines of a generate_xch_key invocation are echoed in the order  *)
(* mnemonic, private key, public key, first address (after the banner),    *)
(* each exactly once: what has been echoed so far is always an initial     *)
(* part of that list, and a completed invocation has echoed all of it.     *)
C1_OutputOrder ==
    cmd = "xch" =>
        /\ Len(out) <= Len(XchLabels)
        /\ \A i \in 1 .. Len(out) : out[i][1] = XchLabels[i]
        /\ pc = "done" =>
               /\ Len(out) = Len(XchLabels)
               /\ out[2][2] = mnemonic
               /\ out[3][2] = hex(bytes_of(private_key))
               /\ out[4][2] = str(public_key)
               /\ out[5][2] = first_address

C1_Witness == XchDone /\ Len(out) = 5 /\ out[5][1] = "First address: "

(* C2: the validator key is a function of the seed: the key returned by    *)
(* mnemonic_to_validator_pk (the echoed one) equals the key recomputed     *)
(* inline at lines 32-34, and two invocations with the same entropy echo   *)
(* the same private key.                                                   *)
C2_ValidatorKeyDeterministic ==
    /\ Past("L34") =>
           /\ out[3] = <<"Private Key: ", hex(bytes_of(private_key))>>
           /\ private_key = _derive_path(key_gen(seed), VALIDATOR_PATH)
           /\ seed = v_seed /\ root_key = v_root_key
    /\ \A r1, r2 \in XchRuns : r1.input = r2.input => r1.out[3] = r2.out[3]

C2_Witness ==
    /\ Past("L34")
    /\ private_key = ValidatorKeyOf(entropy)
    /\ \E r \in XchRuns : r.input = entropy

(* C3: one invocation makes exactly one entropy draw, of 16 bytes; every   *)
(* entity that exists is the value the derivation chain gives for that     *)
(* draw; and an entity that exists keeps its value at every later step of  *)
(* the invocation.                                                         *)
C3_Step ==
    (cmd = "xch" /\ cmd' = "xch") =>
        /\ Len(draws') <= 1
        /\ Past("L24")' => draws' = <<ENTROPY_BYTES>>
                           /\ entropy'[1] = "bytes"
                           /\ Len(entropy'[2]) = ENTROPY_BYTES
        /\ mnemonic' \in {None, bytes_to_mnemonic(entropy')}
        /\ seed' \in {None, mnemonic_to_seed(bytes_to_mnemonic(entropy'))}
        /\ v_seed' \in {None, mnemonic_to_seed(bytes_to_mnemonic(entropy'))}
        /\ root_key' \in {None, RootOf(entropy')}
        /\ v_root_key' \in {None, RootOf(entropy')}
        /\ private_key' \in {None, ValidatorKeyOf(entropy')}
        /\ public_key' \in {None, get_g1(ValidatorKeyOf(entropy'))}
        /\ first_wallet_sk' \in {None, WalletKeyOf(entropy')}
        /\ first_wallet_pk' \in {None, get_g1(WalletKeyOf(entropy'))}
        /\ first_wallet_synthetic_key' \in
               {None, calculate_synthetic_public_key(
                          get_g1(WalletKeyOf(entropy')),
                          DEFAULT_HIDDEN_PUZZLE_HASH)}
        /\ first_puzzle_hash' \in {None, PuzzleHashOf(entropy')}
        /\ first_address' \in
               {None, AddressOf(entropy', config'[PREFIX_ITEM])}
        /\ pc' = "done" =>
               \A i \in 1 .. Len(xchLocals') : xchLocals'[i] # None
        /\ \A i \in 1 .. Len(xchLocals) :
               xchLocals[i] # None => xchLocals'[i] = xchLocals[i]
        /\ \A i \in 1 .. Len(vLocals) :
               vLocals[i] # None => vLocals'[i] = vLocals[i]
C3_SingleDrawNoMutation == [][C3_Step]_vars

C3_Witness ==
    /\ XchDone
    /\ draws = <<ENTROPY_BYTES>>
    /\ first_address = AddressOf(entropy, config[PREFIX_ITEM])
    /\ private_key = ValidatorKeyOf(entropy)

(* C4: the two derivation paths stay separate: the echoed private key is   *)
(* the root key derived along [12381, 8444, 7, 0]; the first address is    *)
(* computed from the root key by the unhardened wallet derivation at index *)
(* 0, the public key, the synthetic key with DEFAULT_HIDDEN_PUZZLE_HASH,   *)
(* the puzzle hash and the encoding; the validator key does not occur in   *)
(* the computation of the address.                                         *)
C4_PathsSeparate ==
    Past("L39") =>
        /\ out[3][2] = hex(bytes_of(_derive_path(root_key, VALIDATOR_PATH)))
        /\ first_address =
               encode_puzzle_hash(
                   puzzle_hash_for_synthetic_public_key(
                       calculate_synthetic_public_key(
                           get_g1(master_sk_to_wallet_sk_unhardened(
                                      root_key, FIRST_WALLET_INDEX)),
                           DEFAULT_HIDDEN_PUZZLE_HASH)),
                   config[PREFIX_ITEM])
        /\ SubTerm(first_address, root_key)
        /\ ~ SubTerm(first_address, private_key)
        /\ ~ SubTerm(first_address, _derive_path(root_key, VALIDATOR_PATH))
        /\ first_wallet_sk # private_key

C4_Witness ==
    /\ XchDone
    /\ out[5][2] = first_address
    /\ SubTerm(first_address, first_wallet_sk)
    /\ SubTerm(out[3][2], private_key)

(* C5: when the entropy draw fails the invocation is aborted: the draw was *)
(* made once, no derivation step has run (no entity exists, no seed was    *)
(* computed, the configuration was not read) and none of the four lines    *)
(* has been echoed.                                                        *)
C5_DrawFailureAborts ==
    err = "RandomnessUnavailable" =>
        /\ pc = "aborted"
        /\ draws = <<ENTROPY_BYTES>>
        /\ \A i \in 1 .. Len(xchLocals) : xchLocals[i] = None
        /\ \A i \in 1 .. Len(vLocals) : vLocals[i] = None
        /\ seedCalls = <<>> /\ cfgReads = <<>>
        /\ \A i \in 1 .. Len(out) : out[i][1] \notin
               {"Mnemonic: ", "Private Key: ", "Public Key: ",
                "First address: "}

C5_Witness == err = "RandomnessUnavailable" /\ cmd = "xch" /\ pc = "aborted"

(* C6: every call of mnemonic_to_seed of a generate_xch_key invocation,    *)
(* the one inside mnemonic_to_validator_pk included, receives the mnemonic *)
(* bytes_to_mnemonic built from the 16 bytes drawn in this invocation, so  *)
(* InvalidMnemonic is never raised.                                        *)
C6_NoInvalidMnemonic ==
    /\ err # "InvalidMnemonic"
    /\ cmd = "xch" =>
           /\ \A i \in 1 .. Len(seedCalls) :
                  /\ seedCalls[i] = bytes_to_mnemonic(entropy)
                  /\ seedCalls[i] = mnemonic
                  /\ Len(entropy[2]) = ENTROPY_BYTES
                  /\ WellFormedMnemonic(seedCalls[i])
           /\ Past("L17") => Len(seedCalls) >= 1
           /\ Past("L32") => Len(seedCalls) = 2

C6_Witness == XchDone /\ Len(seedCalls) = 2 /\ seedCalls[1] = seedCalls[2]

(* C7: invocations are independent: two completed generate_xch_key         *)
(* invocations with the same entropy and the same prefix echoed the same   *)
(* lines, whatever ran before them, and an invocation starts with no value *)
(* of an earlier one.                                                      *)
C7_Independent ==
    /\ \A r1, r2 \in XchRuns :
           (r1.input = r2.input /\ r1.cfg[PREFIX_ITEM] = r2.cfg[PREFIX_ITEM])
               => r1.out = r2.out
    /\ \A r \in XchRuns :
           r.out = <<  <<XchLabels[1], None>>,
                       <<XchLabels[2], bytes_to_mnemonic(r.input)>>,
                       <<XchLabels[3], hex(bytes_of(ValidatorKeyOf(r.input)))>>,
                       <<XchLabels[4], str(get_g1(ValidatorKeyOf(r.input)))>>,
                       <<XchLabels[5], AddressOf(r.input, r.cfg[PREFIX_ITEM])>> >>
    /\ pc \in {"L23", "L44"} =>
           /\ out = <<>>
           /\ \A i \in 1 .. Len(xchLocals) : xchLocals[i] = None
           /\ \A i \in 1 .. Len(vLocals) : vLocals[i] = None
           /\ account = None

C7_Witness ==
    /\ runs = MaxRuns
    /\ XchDone
    /\ \E r \in EthRuns : TRUE
    /\ \E r1, r2 \in XchRuns :
           /\ r1.input = r2.input
           /\ r1.cfg[PREFIX_ITEM] = r2.cfg[PREFIX_ITEM]
           /\ r1.cfg # r2.cfg

(* C8: the only configuration item generate_xch_key reads is               *)
(* ["xch", "prefix"], once per invocation; the first-address line depends  *)
(* on it and the mnemonic, private-key and public-key lines do not.        *)
C8_PrefixOnly ==
    /\ cmd = "xch" =>
           /\ cfgReads \in {<<>>, <<PREFIX_ITEM>>}
           /\ Past("L39") <=> cfgReads = <<PREFIX_ITEM>>
           /\ \A i \in 1 .. Len(out) : \A p \in Prefixes :
                  SubTerm(out[i][2], p) <=> i = 5 /\ p = config[PREFIX_ITEM]
    /\ \A r1, r2 \in XchRuns :
           r1.input = r2.input =>
               /\ \A i \in 1 .. 4 : r1.out[i] = r2.out[i]
               /\ r1.out[5] = r2.out[5]
                      <=> r1.cfg[PREFIX_ITEM] = r2.cfg[PREFIX_ITEM]

C8_Witness ==
    /\ XchDone
    /\ cfgReads = <<PREFIX_ITEM>>
    /\ \E r1, r2 \in XchRuns :
           /\ r1.input = r2.input
           /\ r1.cfg[PREFIX_ITEM] # r2.cfg[PREFIX_ITEM]
           /\ r1.out[5] # r2.out[5]

(* C9: the two commands are unrelated: generate_eth_key makes no entropy   *)
(* draw, computes no mnemonic, seed or key of the derivation chain and     *)
(* reads no configuration item; generate_xch_key creates no account; and   *)
(* what a command echoes depends on its own random input only, not on the  *)
(* invocations of the other command.                                       *)
C9_FlowsUnrelated ==
    /\ cmd = "eth" =>
           /\ draws = <<>> /\ seedCalls = <<>> /\ cfgReads = <<>>
           /\ \A i \in 1 .. Len(xchLocals) : xchLocals[i] = None
           /\ \A i \in 1 .. Len(vLocals) : vLocals[i] = None
           /\ creates <= 1
           /\ pc = "done" => creates = 1
    /\ cmd = "xch" => creates = 0 /\ account = None
    /\ \A r1, r2 \in EthRuns : r1.input = r2.input => r1.out = r2.out
    /\ \A r \in EthRuns :
           /\ r.input[1] = "Account.create"
           /\ \A i \in 1 .. Len(r.out) : \A x \in XchRuns :
                  /\ ~ SubTerm(r.out[i][2], x.input)
                  /\ \A j \in 2 .. Len(x.out) :
                         ~ SubTerm(x.out[j][2], r.input)

C9_Witness ==
    /\ EthDone
    /\ creates = 1
    /\ \E x \in XchRuns : TRUE
    /\ \E r \in EthRuns : r.input = account

(* C10: the echoed public key is the public key of the echoed private key  *)
(* (the validator key), and it is not the public key the echoed first      *)
(* address is built from, which is the public key of the unhardened wallet *)
(* key at index 0.                                                         *)
C10_PublicKeyOfValidatorKey ==
    XchDone =>
        /\ out[3][2] = hex(bytes_of(ValidatorKeyOf(entropy)))
        /\ out[4][2] = str(get_g1(ValidatorKeyOf(entropy)))
        /\ out[4][2] # str(first_wallet_pk)
        /\ first_wallet_pk = get_g1(WalletKeyOf(entropy))
        /\ SubTerm(out[5][2], first_wallet_pk)
        /\ ~ SubTerm(out[5][2], get_g1(ValidatorKeyOf(entropy)))

C10_Witness ==
    /\ XchDone
    /\ out[4][2] = str(public_key)
    /\ public_key # first_wallet_pk
    /\ out[5][2] = first_address

====
